---- MODULE Spec2Model ----
(***************************************************************************)
(* A model of Lambolt's parser combinators (src/Parser.ts).                *)
(*                                                                         *)
(* A JavaScript string is a sequence of one-character strings; a State is  *)
(* the record [code, index] with the 0-based JavaScript index.  A parser   *)
(* is a syntax tree (a record with a tag) that Apply runs on a State, as   *)
(* the closures of the source do.  Running a parser gives a result record  *)
(*   [state, value, thrown, calls]                                         *)
(* where thrown.kind = "none" for a normal return [state, value], and      *)
(* otherwise describes the exception that left the parser; calls is a      *)
(* history of the applications a combinator made of its own arguments.     *)
(***************************************************************************)
EXTENDS Integers, Sequences, FiniteSets, TLC

VARIABLES state, last, gen

vars == <<state, last, gen>>

\* ------------------------------------------------------------------ bounds

\* Longest text of the cursor, grammar, until, coroutine and sbt specifications.
MaxLen == 3
\* Longest text of the skipper specification.
MaxSkipLen == 5
\* Longest text of the highlighter specification.
MaxHighlightLen == 7
\* Call-stack budget of the engine, in frames of until / sbt recursion.  Every
\* recursion of the model that ends needs at most MaxLen + 2 frames, so the
\* budget is exhausted only by a recursion that never ends.
MaxDepth == MaxLen + 3

Min(a, b) == IF a < b THEN a ELSE b
Max(a, b) == IF a > b THEN a ELSE b

\* ------------------------------------------------------------------ values

Bool(b) == [t |-> "bool", v |-> b]
Str(s) == [t |-> "str", v |-> s]
Arr(a) == [t |-> "arr", v |-> a]
Null == [t |-> "null", v |-> <<>>]
Undefined == [t |-> "undefined", v |-> <<>>]
StateVal(s) == [t |-> "state", v |-> s]

\* JavaScript's ToBoolean, as `if (got)` and `if (matched)` apply it.
Truthy(x) ==
  CASE x.t = "bool" -> x.v
    [] x.t = "str" -> Len(x.v) > 0
    [] x.t = "null" -> FALSE
    [] x.t = "undefined" -> FALSE
    [] OTHER -> TRUE

\* ------------------------------------------------------------------ strings

\* String.prototype.slice(from, to): a negative position counts from the end,
\* and both are clamped to the string.
Slice(str, from, to) ==
  LET f == IF from < 0 THEN Max(Len(str) + from, 0) ELSE Min(from, Len(str))
      u == IF to < 0 THEN Max(Len(str) + to, 0) ELSE Min(to, Len(str))
  IN SubSeq(str, f + 1, u)

\* str[i]: the character, or undefined outside the string.
CharAt(str, i) == IF 0 <= i /\ i < Len(str) THEN Str(<<str[i + 1]>>) ELSE Undefined

\* /\s/.test(x): x is converted to a string first; "undefined" holds no whitespace.
TestWhitespace(x) == x.t = "str" /\ x.v[1] \in {" ", "\n"}

\* /\n/.test(x)
TestNewline(x) == x.t = "str" /\ x.v[1] = "\n"

\* /[a-zA-Z0-9_.]/.test(x), on the characters the texts of the model are made of.
TestNameChar(x) == x.t = "str" /\ x.v[1] \in {"a", "b", "_", "."}

\* ----------------------------------------------------------------- results

NoThrow == [kind |-> "none", what |-> <<>>, from |-> 0, to |-> 0]

\* return [state, value]
Ret(s, x) == [state |-> s, value |-> x, thrown |-> NoThrow, calls |-> <<>>]

\* The same return, with the history of the sub-parser applications made.
RetC(s, x, cs) == [state |-> s, value |-> x, thrown |-> NoThrow, calls |-> cs]

\* An exception leaving the parser at state s.
Raise(s, th, cs) == [state |-> s, value |-> Undefined, thrown |-> th, calls |-> cs]

Returned(r) == r.thrown.kind = "none"

Call(role, s) == [role |-> role, at |-> s.index]

\* The engine's "Maximum call stack size exceeded".
RangeError == [kind |-> "RangeError", what |-> <<>>, from |-> 0, to |-> 0]

\* ------------------------------------------------------------------ errors

\* throw "Expected '" + str + "':\n" + highlight(index, index + str.length, code)
expected_string(str, s) ==
  Raise(s, [kind |-> "expected_string", what |-> str,
            from |-> s.index, to |-> s.index + Len(str)], <<>>)

\* throw "Expected " + name + ":\n" + highlight(index, index + 1, code)
expected_type(nam, s) ==
  Raise(s, [kind |-> "expected_type", what |-> nam,
            from |-> s.index, to |-> s.index + 1], <<>>)

\* ---------------------------------------------------------------- skippers

RECURSIVE skip_comment_loop(_, _)
\* while (index < code.length && !/\n/.test(code[index])) index += 1
skip_comment_loop(str, i) ==
  IF i < Len(str) /\ ~TestNewline(CharAt(str, i))
  THEN skip_comment_loop(str, i + 1)
  ELSE i

skip_comment(s) ==
  LET skips == Slice(s.code, s.index, s.index + 2) = <<"/", "/">>
  IN IF skips
     THEN Ret([s EXCEPT !.index = skip_comment_loop(s.code, s.index + 2)], Bool(TRUE))
     ELSE Ret(s, Bool(FALSE))

RECURSIVE skip_spaces_loop(_, _)
\* while (/\s/.test(code[index])) index += 1
skip_spaces_loop(str, i) ==
  IF TestWhitespace(CharAt(str, i)) THEN skip_spaces_loop(str, i + 1) ELSE i

skip_spaces(s) ==
  LET skips == TestWhitespace(CharAt(s.code, s.index))
  IN Ret([s EXCEPT !.index = skip_spaces_loop(s.code, s.index)], Bool(skips))

RECURSIVE skip(_)
\* A mutant of skip: one round of comment and spaces, without the recursion.
skip_once(s) ==
  LET c == skip_comment(s)
      w == skip_spaces(c.state)
  IN Ret(w.state, Bool(c.value.v \/ w.value.v))

skip(s) ==
  LET c == skip_comment(s)
      w == skip_spaces(c.state)
  IN IF c.value.v \/ w.value.v
     THEN Ret(skip(w.state).state, Bool(TRUE))
     ELSE Ret(w.state, Bool(FALSE))

\* ----------------------------------------------------------------- strings

match_here(str, s) ==
  IF Slice(s.code, s.index, s.index + Len(str)) = str
  THEN Ret([s EXCEPT !.index = s.index + Len(str)], Bool(TRUE))
  ELSE Ret(s, Bool(FALSE))

\* A regular expression of the model is [class, min]: /[class]*/ for min = 0 and
\* /[class]+/ for min = 1.
RECURSIVE RunLength(_, _, _)
\* The length of the longest run of characters of cls that starts str at i.
RunLength(str, i, cls) ==
  IF i < Len(str) /\ str[i + 1] \in cls THEN 1 + RunLength(str, i + 1, cls) ELSE 0

RECURSIVE RegexSearch(_, _, _)
\* String.prototype.match(regex) without the g flag: the leftmost match from
\* position i on, as [index, length], or index -1 for null.
RegexSearch(str, regex, i) ==
  IF RunLength(str, i, regex.class) >= regex.min
  THEN [index |-> i, length |-> RunLength(str, i, regex.class)]
  ELSE IF i >= Len(str) THEN [index |-> -1, length |-> 0]
  ELSE RegexSearch(str, regex, i + 1)

match_here_regex(regex, s) ==
  LET rest == Slice(s.code, s.index, Len(s.code))
      matched == RegexSearch(rest, regex, 0)
  IN IF matched.index = 0
     THEN Ret([s EXCEPT !.index = s.index + matched.length], Bool(TRUE))
     ELSE Ret(s, Bool(FALSE))

\* A matcher is [kind |-> "string", str] or [kind |-> "regex", regex].
match(matcher, s) ==
  LET k == skip(s)
  IN IF matcher.kind = "string"
     THEN match_here(matcher.str, k.state)
     ELSE match_here_regex(matcher.regex, k.state)

consume(str, s) ==
  LET m == match([kind |-> "string", str |-> str], s)
  IN IF m.value.v THEN Ret(m.state, Null) ELSE expected_string(str, m.state)

\* A mutant of get_char: the character is taken without the end-of-text test.
get_char_unguarded(s) ==
  LET k == skip(s)
  IN Ret([k.state EXCEPT !.index = k.state.index + 1], CharAt(k.state.code, k.state.index))

get_char(s) ==
  LET k == skip(s)
  IN IF k.state.index < Len(k.state.code)
     THEN Ret([k.state EXCEPT !.index = k.state.index + 1],
              CharAt(k.state.code, k.state.index))
     ELSE Ret(k.state, Null)

done(s) ==
  LET k == skip(s)
  IN Ret(k.state, Bool(k.state.index = Len(k.state.code)))

\* -------------------------------------------------------------------- name

RECURSIVE name_here_loop(_, _, _)
\* while (index < code.length && /[a-zA-Z0-9_.]/.test(code[index]))
\*   { name += code[index]; index += 1 }
name_here_loop(str, i, acc) ==
  IF i < Len(str) /\ TestNameChar(CharAt(str, i))
  THEN name_here_loop(str, i + 1, Append(acc, str[i + 1]))
  ELSE [index |-> i, name |-> acc]

name_here(s) ==
  LET r == name_here_loop(s.code, s.index, <<>>)
  IN Ret([s EXCEPT !.index = r.index], Str(r.name))

name(s) == name_here(skip(s).state)

name1(s) ==
  LET n == name(s)
  IN IF Len(n.value.v) > 0 THEN n ELSE expected_type(<<"n", "a", "m", "e">>, n.state)

\* ------------------------------------------------------------------- monad

pure(a, s) == Ret(s, a)

get_state(s) == Ret(s, StateVal(s))

\* ------------------------------------------------------- parsers as values

\* The parser values of the source, as syntax trees that Apply runs.
P_skip_comment == [tag |-> "skip_comment"]
P_skip_spaces == [tag |-> "skip_spaces"]
P_skip == [tag |-> "skip"]
P_match_here(str) == [tag |-> "match_here", str |-> str]
P_match_here_regex(regex) == [tag |-> "match_here_regex", regex |-> regex]
P_match(str) == [tag |-> "match", matcher |-> [kind |-> "string", str |-> str]]
P_match_regex(regex) == [tag |-> "match", matcher |-> [kind |-> "regex", regex |-> regex]]
P_consume(str) == [tag |-> "consume", str |-> str]
P_get_char == [tag |-> "get_char"]
P_done == [tag |-> "done"]
P_name_here == [tag |-> "name_here"]
P_name == [tag |-> "name"]
P_name1 == [tag |-> "name1"]
P_pure(a) == [tag |-> "pure", a |-> a]
P_get_state == [tag |-> "get_state"]
P_dry(parser) == [tag |-> "dry", parser |-> parser]
P_guard(head, body) == [tag |-> "guard", head |-> head, body |-> body]
P_grammar(nam, choices) == [tag |-> "grammar", name |-> nam, choices |-> choices]
P_until(delim, parser) == [tag |-> "until", delim |-> delim, parser |-> parser]
P_list(open, sep, close, elem) ==
  [tag |-> "list", open |-> open, sep |-> sep, close |-> close, elem |-> elem]
P_call(open, sep, close, elem) ==
  [tag |-> "call", open |-> open, sep |-> sep, close |-> close, elem |-> elem]
P_caller(open) == [tag |-> "caller", open |-> open]
\* The closure (state) => { elem; sep; return [state, val] } of list and call.
P_elem_sep(elem, sep) == [tag |-> "elem_sep", elem |-> elem, sep |-> sep]
\* Parser(fn), applied with a generator object of its own.
P_Parser(fn) == [tag |-> "Parser", fn |-> fn]
\* The rest of a chain of binds over the yields of fn, from yield k on.
P_chain(fn, k, recv) == [tag |-> "chain", fn |-> fn, k |-> k, recv |-> recv]
P_sbt == [tag |-> "sbt"]

\* -------------------------------------------------------------- generators

\* A generator function of the model is [yields, ret]: it yields the parsers
\* of yields in order, each through `yield* run(p)`, and returns either the
\* array of the values received at the yields ret.ix, or the one value.
GenReturn(fn, recv) ==
  IF fn.ret.kind = "array"
  THEN Arr([i \in 1..Len(fn.ret.ix) |-> recv[fn.ret.ix[i]]])
  ELSE recv[fn.ret.ix[1]]

\* fn(): a generator object that has not started.
NewGen == [pos |-> 0, recv |-> <<>>, finished |-> FALSE]

\* gen.next(sent): {gen, done, value}.  pos is the yield the generator is
\* suspended at (0 before the first next); sent becomes that yield's value.
GenNext(fn, g, sent) ==
  IF g.finished THEN [gen |-> g, done |-> TRUE, value |-> Undefined]
  ELSE LET recv == IF g.pos = 0 THEN g.recv ELSE Append(g.recv, sent)
       IN IF g.pos = Len(fn.yields)
          THEN [gen |-> [pos |-> g.pos, recv |-> recv, finished |-> TRUE],
                done |-> TRUE, value |-> GenReturn(fn, recv)]
          ELSE [gen |-> [pos |-> g.pos + 1, recv |-> recv, finished |-> FALSE],
                done |-> FALSE, value |-> fn.yields[g.pos + 1]]

\* ------------------------------------------------------------- combinators

RECURSIVE Apply(_, _, _)
RECURSIVE until(_, _, _, _)
RECURSIVE grammar_loop(_, _, _, _, _, _)
RECURSIVE ParserLoop(_, _, _, _, _)
RECURSIVE BindChain(_, _, _, _, _)

\* The functions (a) => parser given to bind are closures [fn, k, recv]: the
\* function that, given the value a of yield k - 1 of fn, returns the rest of
\* the chain of binds from yield k on, recv being the values bound before.
CallFn(b_parser, a) == P_chain(b_parser.fn, b_parser.k, Append(b_parser.recv, a))

\* bind(a_parser, b_parser)(state)
bind(a_parser, b_parser, s, d) ==
  LET a == Apply(a_parser, s, d)
  IN IF Returned(a) THEN Apply(CallFn(b_parser, a.value), a.state, d) ELSE a

\* A mutant of dry: the state the parser advanced to is returned.
dry_advancing(parser, s, d) ==
  LET r == Apply(parser, s, d)
  IN IF Returned(r) THEN RetC(r.state, r.value, <<Call("parser", s)>>) ELSE r

dry(parser, s, d) ==
  LET r == Apply(parser, s, d)
  IN IF Returned(r) THEN RetC(s, r.value, <<Call("parser", s)>>) ELSE r

\* A mutant of guard: the head is applied without dry.
guard_consuming(head, body, s, d) ==
  LET k == Apply(P_skip, s, d)
      h == Apply(head, k.state, d)
  IN IF ~Returned(h) THEN h
     ELSE IF Truthy(h.value)
     THEN LET b == Apply(body, h.state, d)
          IN [b EXCEPT !.calls = <<Call("head", k.state), Call("body", h.state)>>]
     ELSE RetC(h.state, Null, <<Call("head", k.state)>>)

guard(head, body, s, d) ==
  LET k == Apply(P_skip, s, d)
      h == Apply(P_dry(head), k.state, d)
  IN IF ~Returned(h) THEN h
     ELSE IF Truthy(h.value)
     THEN LET b == Apply(body, h.state, d)
          IN [b EXCEPT !.calls = <<Call("head", k.state), Call("body", h.state)>>]
     ELSE RetC(h.state, Null, <<Call("head", k.state)>>)

\* for (i = 0; i < choices.length; ++i) { [state, got] = choices[i](state); ... }
\* with i the 1-based position and cs the applications made so far.
grammar_loop(nam, choices, i, s, d, cs) ==
  IF i > Len(choices) THEN [expected_type(nam, s) EXCEPT !.calls = cs]
  ELSE LET r == Apply(choices[i], s, d)
           cs2 == Append(cs, Call("choice", s))
       IN IF ~Returned(r) THEN [r EXCEPT !.calls = cs2]
          ELSE IF Truthy(r.value) THEN RetC(r.state, r.value, cs2)
          ELSE grammar_loop(nam, choices, i + 1, r.state, d, cs2)

grammar(nam, choices, s, d) == grammar_loop(nam, choices, 1, s, d, <<>>)

\* d is the number of frames left for the recursion of until.
until(delim, parser, s, d) ==
  LET dl == Apply(delim, s, d)
  IN IF ~Returned(dl) THEN dl
     ELSE IF Truthy(dl.value) THEN RetC(dl.state, Arr(<<>>), <<Call("delim", s)>>)
     ELSE LET a == Apply(parser, dl.state, d)
              cs == <<Call("delim", s), Call("elem", dl.state)>>
          IN IF ~Returned(a) THEN [a EXCEPT !.calls = cs]
             ELSE IF d = 0 THEN Raise(a.state, RangeError, cs)
             ELSE LET b == until(delim, parser, a.state, d - 1)
                  IN IF ~Returned(b) THEN [b EXCEPT !.calls = cs \o b.calls]
                     ELSE RetC(b.state, Arr(<<a.value>> \o b.value.v), cs \o b.calls)

\* (state) => { [state, val] = elem(state); [state, skp] = sep(state); return [state, val] }
elem_sep(elem, sep, s, d) ==
  LET e == Apply(elem, s, d)
  IN IF ~Returned(e) THEN e
     ELSE LET k == Apply(sep, e.state, d)
          IN IF ~Returned(k) THEN k ELSE Ret(k.state, e.value)

\* The make of the model's lists: (x) => x.
make_list(x) == x

list(open, sep, close, elem, s, d) ==
  LET o == Apply(open, s, d)
  IN IF ~Returned(o) THEN o
     ELSE LET u == Apply(P_until(close, P_elem_sep(elem, sep)), o.state, d)
          IN IF ~Returned(u) THEN [u EXCEPT !.calls = <<>>]
             ELSE Ret(u.state, make_list(u.value))

\* A mutant of caller: the test that the name is not empty is dropped.
caller_any_name(open, s) ==
  LET n == name_here(s)
      g == match_here(open, n.state)
  IN Ret(g.state, Bool(g.value.v))

caller(open, s) ==
  LET n == name_here(s)
      g == match_here(open, n.state)
  IN Ret(g.state, Bool(Len(n.value.v) > 0 /\ g.value.v))

\* The make of the model's calls: (x, y) => [x, y].
make_call(x, y) == Arr(<<x, y>>)

call(open, sep, close, elem, s, d) ==
  LET n == Apply(P_name1, s, d)
  IN IF ~Returned(n) THEN n
     ELSE LET o == Apply(open, n.state, d)
          IN IF ~Returned(o) THEN o
             ELSE LET u == Apply(P_until(close, P_elem_sep(elem, sep)), o.state, d)
                  IN IF ~Returned(u) THEN [u EXCEPT !.calls = <<>>]
                     ELSE Ret(u.state, make_call(n.value, u.value))

\* ------------------------------------------------------------- coroutines

\* while (!next.done) { [state, value] = next.value(state); next = gen.next(value) }
\* return pure(next.value)(state)
\* The result is paired with the generator object as the loop leaves it: an
\* exception of a yielded parser leaves the generator suspended at its yield.
ParserLoop(fn, next, s, d, cs) ==
  IF next.done THEN [res |-> RetC(s, next.value, cs), gen |-> next.gen]
  ELSE LET r == Apply(next.value, s, d)
           cs2 == Append(cs, Call("yield", s))
       IN IF ~Returned(r) THEN [res |-> [r EXCEPT !.calls = cs2], gen |-> next.gen]
          ELSE ParserLoop(fn, GenNext(fn, next.gen, r.value), r.state, d, cs2)

\* The parser Parser(fn) returns, applied to s while its generator object is g.
ParserApply(fn, g, s, d) == ParserLoop(fn, GenNext(fn, g, Undefined), s, d, <<>>)

\* bind(y[k], a => bind(y[k+1], b => ... pure(ret))): the chain of binds that
\* fn is sugar for, from yield k on, with recv the values bound so far.
BindChain(fn, k, recv, s, d) ==
  IF k > Len(fn.yields) THEN pure(GenReturn(fn, recv), s)
  ELSE bind(fn.yields[k], [fn |-> fn, k |-> k + 1, recv |-> recv], s, d)

\* -------------------------------------------------------------------- tests

\* function*() { yield* run(consume("(")); var lft = yield* run(sbt);
\*               var rgt = yield* run(sbt); yield* run(consume(")")); return [lft, rgt] }
sbt_node_fn ==
  [yields |-> <<P_consume(<<"(">>), P_sbt, P_sbt, P_consume(<<")">>)>>,
   ret |-> [kind |-> "array", ix |-> <<2, 3>>]]

\* function*() { return yield* run(name) }
sbt_name_fn == [yields |-> <<P_name>>, ret |-> [kind |-> "value", ix |-> <<1>>]]

sbt_node == P_guard(P_match(<<"(">>), P_Parser(sbt_node_fn))

sbt_name == P_guard(P_match(<<>>), P_Parser(sbt_name_fn))

StrBinTree == <<"S", "t", "r", "B", "i", "n", "T", "r", "e", "e">>

\* d is the number of frames left for the recursion of sbt.
sbt(s, d) ==
  IF d = 0 THEN Raise(s, RangeError, <<>>)
  ELSE grammar(StrBinTree, <<sbt_node, sbt_name>>, s, d - 1)

\* ------------------------------------------------------------------- apply

\* parser(state): the parser value p run on s.
Apply(p, s, d) ==
  CASE p.tag = "skip_comment" -> skip_comment(s)
    [] p.tag = "skip_spaces" -> skip_spaces(s)
    [] p.tag = "skip" -> skip(s)
    [] p.tag = "match_here" -> match_here(p.str, s)
    [] p.tag = "match_here_regex" -> match_here_regex(p.regex, s)
    [] p.tag = "match" -> match(p.matcher, s)
    [] p.tag = "consume" -> consume(p.str, s)
    [] p.tag = "get_char" -> get_char(s)
    [] p.tag = "done" -> done(s)
    [] p.tag = "name_here" -> name_here(s)
    [] p.tag = "name" -> name(s)
    [] p.tag = "name1" -> name1(s)
    [] p.tag = "pure" -> pure(p.a, s)
    [] p.tag = "get_state" -> get_state(s)
    [] p.tag = "dry" -> dry(p.parser, s, d)
    [] p.tag = "guard" -> guard(p.head, p.body, s, d)
    [] p.tag = "grammar" -> grammar(p.name, p.choices, s, d)
    [] p.tag = "until" -> until(p.delim, p.parser, s, d)
    [] p.tag = "elem_sep" -> elem_sep(p.elem, p.sep, s, d)
    [] p.tag = "list" -> list(p.open, p.sep, p.close, p.elem, s, d)
    [] p.tag = "call" -> call(p.open, p.sep, p.close, p.elem, s, d)
    [] p.tag = "caller" -> caller(p.open, s)
    [] p.tag = "Parser" -> ParserApply(p.fn, NewGen, s, d).res
    [] p.tag = "chain" -> BindChain(p.fn, p.k, p.recv, s, d)
    [] p.tag = "sbt" -> sbt(s, d)

\* ------------------------------------------------------------------ driver

\* The texts of at most n characters of alphabet.
Texts(alphabet, n) == UNION {[1..k -> alphabet] : k \in 0..n}

\* The states {code, index} with the cursor inside the text or at its end.
States(alphabet, n) ==
  {[code |-> c, index |-> i] : <<c, i>> \in
     {<<c, i>> \in Texts(alphabet, n) \X (0..n) : i <= Len(c)}}

\* No parser applied yet to state.
None == [op |-> [tag |-> "none"],
         out |-> Ret([code |-> <<>>, index |-> 0], Undefined)]

Idle == last.op.tag = "none"

\* p(state): the record of parser p applied to the driver's state.
Applied(p) == [op |-> p, out |-> Apply(p, state, MaxDepth)]

\* var [state, value] = ...: the state a parser returned becomes the driver's.
Thread ==
  /\ ~Idle
  /\ Returned(last.out)
  /\ state' = last.out.state
  /\ last' = None
  /\ UNCHANGED gen

\* --------------------------------------------- specification: cursor (Spec)

Alphabet == {"a", "(", ")", ",", "/", "\n"}

Literals == {<<>>, <<"(">>, <<"a", ")">>}

Regexes == {[class |-> {"a"}, min |-> 1], [class |-> {"a", "("}, min |-> 0]}

Open == P_match(<<"(">>)
Sep == P_match(<<",">>)
Close == P_match(<<")">>)

DryParsers == {P_get_char, P_name, Open, P_consume(<<"(">>), P_caller(<<"(">>)}
Heads == {Open, P_caller(<<"(">>), P_done}
Bodies == {P_name, P_get_char, P_consume(<<"(">>)}
Delims == {Close, P_done}
Elems == {P_get_char, P_name, Sep}
ListElems == {P_name, P_get_char}

Init ==
  /\ state \in States(Alphabet, MaxLen)
  /\ last = None
  /\ gen = NewGen

Do_skip_comment == Idle /\ last' = Applied(P_skip_comment) /\ UNCHANGED <<state, gen>>
Do_skip_spaces == Idle /\ last' = Applied(P_skip_spaces) /\ UNCHANGED <<state, gen>>
Do_skip == Idle /\ last' = Applied(P_skip) /\ UNCHANGED <<state, gen>>
Do_match_here ==
  \E str \in Literals :
    Idle /\ last' = Applied(P_match_here(str)) /\ UNCHANGED <<state, gen>>
Do_match_here_regex ==
  \E regex \in Regexes :
    Idle /\ last' = Applied(P_match_here_regex(regex)) /\ UNCHANGED <<state, gen>>
Do_match ==
  \/ \E str \in Literals : Idle /\ last' = Applied(P_match(str)) /\ UNCHANGED <<state, gen>>
  \/ \E regex \in Regexes : Idle /\ last' = Applied(P_match_regex(regex)) /\ UNCHANGED <<state, gen>>
Do_consume == \E str \in Literals : Idle /\ last' = Applied(P_consume(str)) /\ UNCHANGED <<state, gen>>
Do_get_char == Idle /\ last' = Applied(P_get_char) /\ UNCHANGED <<state, gen>>
Do_done == Idle /\ last' = Applied(P_done) /\ UNCHANGED <<state, gen>>
Do_name_here == Idle /\ last' = Applied(P_name_here) /\ UNCHANGED <<state, gen>>
Do_name == Idle /\ last' = Applied(P_name) /\ UNCHANGED <<state, gen>>
Do_name1 == Idle /\ last' = Applied(P_name1) /\ UNCHANGED <<state, gen>>
Do_dry == \E p \in DryParsers : Idle /\ last' = Applied(P_dry(p)) /\ UNCHANGED <<state, gen>>
Do_guard ==
  \E head \in Heads, body \in Bodies :
    Idle /\ last' = Applied(P_guard(head, body)) /\ UNCHANGED <<state, gen>>
Do_until ==
  \E delim \in Delims, elem \in Elems :
    Idle /\ last' = Applied(P_until(delim, elem)) /\ UNCHANGED <<state, gen>>
Do_list ==
  \E elem \in ListElems :
    Idle /\ last' = Applied(P_list(Open, Sep, Close, elem)) /\ UNCHANGED <<state, gen>>
Do_call ==
  \E elem \in ListElems :
    Idle /\ last' = Applied(P_call(Open, Sep, Close, elem)) /\ UNCHANGED <<state, gen>>
Do_caller == \E open \in Literals : Idle /\ last' = Applied(P_caller(open)) /\ UNCHANGED <<state, gen>>

Next ==
  \/ Do_skip_comment
  \/ Do_skip_spaces
  \/ Do_skip
  \/ Do_match_here
  \/ Do_match_here_regex
  \/ Do_match
  \/ Do_consume
  \/ Do_get_char
  \/ Do_done
  \/ Do_name_here
  \/ Do_name
  \/ Do_name1
  \/ Do_dry
  \/ Do_guard
  \/ Do_until
  \/ Do_list
  \/ Do_call
  \/ Do_caller
  \/ Thread

Spec == Init /\ [][Next]_vars

\* ------------------------------------------------------ properties of Spec

\* C5: every state a core operation returns carries the text it was given and
\* an index between 0 and the length of the text, and so does every state
\* the driver threads on.
CursorInBounds ==
  /\ 0 <= state.index /\ state.index <= Len(state.code)
  /\ (~Idle /\ Returned(last.out)) =>
       /\ last.out.state.code = state.code
       /\ 0 <= last.out.state.index
       /\ last.out.state.index <= Len(state.code)

\* A comment that runs to the end of the text was skipped, from a cursor
\* inside the text.
CursorInBoundsWitness ==
  /\ last.op.tag = "skip_comment"
  /\ last.out.value.v
  /\ state.index > 0
  /\ last.out.state.index = Len(state.code)

\* C6: guard skips trivia to s1; if head is true at s1 the result is the
\* result of body on s1, body having been applied once, at s1; otherwise body
\* is not applied and the result is (s1, null).
GuardDispatch ==
  last.op.tag = "guard" =>
    LET s1 == skip(state).state
        h == Apply(last.op.head, s1, MaxDepth)
        b == Apply(last.op.body, s1, MaxDepth)
    IN IF Truthy(h.value)
       THEN /\ last.out.state = b.state
            /\ last.out.value = b.value
            /\ last.out.thrown = b.thrown
            /\ last.out.calls = <<Call("head", s1), Call("body", s1)>>
       ELSE /\ last.out.state = s1
            /\ last.out.value = Null
            /\ Returned(last.out)
            /\ last.out.calls = <<Call("head", s1)>>

\* A guard that skipped trivia, whose head consumed input and was true, and
\* whose body returned.
GuardDispatchWitness ==
  /\ last.op.tag = "guard"
  /\ Returned(last.out)
  /\ skip(state).state.index > state.index
  /\ LET h == Apply(last.op.head, skip(state).state, MaxDepth)
     IN Truthy(h.value) /\ h.state.index > skip(state).state.index

\* The characters /[a-zA-Z0-9_.]/ accepts.
IsNameChar(c) == TestNameChar(Str(<<c>>))

\* The length of the longest run of name characters that starts at the cursor.
IdentLen(s) ==
  CHOOSE k \in 0..(Len(s.code) - s.index) :
    /\ \A j \in 1..k : IsNameChar(s.code[s.index + j])
    /\ s.index + k = Len(s.code) \/ ~IsNameChar(s.code[s.index + k + 1])

\* The literal open stands in the text right after the k characters at the cursor.
FollowedBy(s, k, open) ==
  /\ s.index + k + Len(open) <= Len(s.code)
  /\ \A j \in 1..Len(open) : s.code[s.index + k + j] = open[j]

\* C7 as claimed: caller(open) returns the state it was given, with true iff
\* a non-empty identifier followed by open starts at the cursor.
CallerConsumesNothing ==
  last.op.tag = "caller" =>
    /\ last.out.state = state
    /\ last.out.value =
         Bool(IdentLen(state) > 0 /\ FollowedBy(state, IdentLen(state), last.op.open))

\* C7 as amended: caller(open) returns true iff the longest run of identifier
\* characters at the cursor is not empty and open follows it; the state it
\* returns is past that run and, if open follows the run, past open; it is
\* dry(caller(open)) that returns the state it was given.
CallerProbe ==
  last.op.tag = "caller" =>
    LET k == IdentLen(state)
        f == FollowedBy(state, k, last.op.open)
        probe == Apply(P_dry(last.op), state, MaxDepth)
    IN /\ last.out.value = Bool(k > 0 /\ f)
       /\ last.out.state.code = state.code
       /\ last.out.state.index = state.index + k + (IF f THEN Len(last.op.open) ELSE 0)
       /\ probe.state = state
       /\ probe.value = last.out.value

\* caller found an identifier followed by a non-empty literal.
CallerProbeWitness ==
  /\ last.op.tag = "caller"
  /\ last.out.value.v
  /\ Len(last.op.open) > 0
  /\ last.out.state.index > state.index

\* C9: when p returns on s, dry(p)(s) returns s itself with the value of p on s.
DryReverts ==
  (last.op.tag = "dry" /\ Returned(last.out)) =>
    /\ last.out.state = state
    /\ last.out.value = Apply(last.op.parser, state, MaxDepth).value

\* dry returned around a parser that advanced the cursor.
DryRevertsWitness ==
  /\ last.op.tag = "dry"
  /\ Returned(last.out)
  /\ Apply(last.op.parser, state, MaxDepth).state.index > state.index

\* The number of applications with the given role in a history.
CountCalls(cs, role) == Cardinality({i \in 1..Len(cs) : cs[i].role = role})

\* C3: until(delim, elem), with delim a match and elem one of match, name and
\* get_char, returns, and the sequence it returns has one element per
\* application of elem.
UntilReturns ==
  (last.op.tag = "until" /\ last.op.delim.tag = "match") =>
    /\ Returned(last.out)
    /\ Len(last.out.value.v) = CountCalls(last.out.calls, "elem")

\* ----------------------------------------- specification: skipper (SpecSkip)

SkipAlphabet == {"a", " ", "/", "\n"}

InitSkip ==
  /\ state \in States(SkipAlphabet, MaxSkipLen)
  /\ last = None
  /\ gen = NewGen

NextSkip ==
  \/ Do_skip_comment
  \/ Do_skip_spaces
  \/ Do_skip
  \/ Thread

SpecSkip == InitSkip /\ [][NextSkip]_vars

\* C8: skip applied to the state skip returned returns that state again, and
\* reports that nothing was skipped.
SkipIdempotent ==
  last.op.tag = "skip" =>
    LET again == Apply(P_skip, last.out.state, MaxDepth)
    IN /\ again.state = last.out.state
       /\ again.value = Bool(FALSE)

\* skip went over whitespace, then a comment, then whitespace again, up to
\* the end of the text.
SkipIdempotentWitness ==
  /\ last.op.tag = "skip"
  /\ LET w == skip_spaces(state)
         c == skip_comment(w.state)
         v == skip_spaces(c.state)
     IN w.value.v /\ c.value.v /\ v.value.v
  /\ last.out.state.index = Len(state.code)

\* -------------------------------------- specification: grammar (SpecGrammar)

\* Parsers of an optional result: guarded alternatives, and parsers whose value
\* may be null or the empty string.
Alternatives ==
  {P_guard(Open, P_get_char), P_guard(P_match(<<"a">>), P_name), P_get_char, P_name_here}

GrammarName == <<"G">>

Do_grammar ==
  \E c1 \in Alternatives, c2 \in Alternatives :
    Idle /\ last' = Applied(P_grammar(GrammarName, <<c1, c2>>)) /\ UNCHANGED <<state, gen>>

NextGrammar ==
  \/ Do_grammar
  \/ Thread

SpecGrammar == Init /\ [][NextGrammar]_vars

\* The positions of the alternatives that, applied to s, give a value other
\* than null.
Present(choices, s) ==
  {i \in 1..Len(choices) : Apply(choices[i], s, MaxDepth).value # Null}

\* C1: grammar returns what the first alternative whose value on the starting
\* state is not null returns on the starting state, having applied that
\* alternative and those before it, each to the starting state.
GrammarFirstPresent ==
  (last.op.tag = "grammar" /\ Present(last.op.choices, state) # {}) =>
    LET i == CHOOSE i \in Present(last.op.choices, state) :
               \A j \in Present(last.op.choices, state) : i <= j
        r == Apply(last.op.choices[i], state, MaxDepth)
    IN /\ Returned(last.out)
       /\ last.out.state = r.state
       /\ last.out.value = r.value
       /\ last.out.calls = [j \in 1..i |-> Call("choice", state)]

\* ---------------------------------- specification: coroutine (SpecCoroutine)

\* function*() { yield* run(consume("(")); var x = yield* run(name);
\*               var y = yield* run(get_char()); return [x, y] }
co_fn ==
  [yields |-> <<P_consume(<<"(">>), P_name, P_get_char>>,
   ret |-> [kind |-> "array", ix |-> <<2, 3>>]]

\* var co = Parser(co_fn): the generator object is made once, here.
InitCoroutine ==
  /\ state \in States(Alphabet, MaxLen)
  /\ last = None
  /\ gen = NewGen

\* co(state): the parser value applied, from wherever its generator stands.
Do_Parser ==
  /\ Idle
  /\ LET r == ParserApply(co_fn, gen, state, MaxDepth)
     IN /\ last' = [op |-> P_Parser(co_fn), out |-> r.res]
        /\ gen' = r.gen
  /\ UNCHANGED state

\* The explicit chain of binds applied.
Do_bind == Idle /\ last' = Applied(P_chain(co_fn, 1, <<>>)) /\ UNCHANGED <<state, gen>>

NextCoroutine ==
  \/ Do_Parser
  \/ Do_bind
  \/ Thread

SpecCoroutine == InitCoroutine /\ [][NextCoroutine]_vars

\* C2: every application of the parser Parser(fn) gives what the chain of
\* binds gives on the same state: the same state and value, or the same
\* exception, after the same applications of the yielded parsers.
CoroutineIsBindChain ==
  last.op.tag = "Parser" =>
    LET r == Apply(P_chain(co_fn, 1, <<>>), state, MaxDepth)
    IN /\ last.out.thrown = r.thrown
       /\ last.out.state = r.state
       /\ last.out.value = r.value

\* ------------------------------------------------ specification: sbt (SpecSbt)

SbtAlphabet == {"(", ")", "a", " "}

InitSbt ==
  /\ state \in States(SbtAlphabet, MaxLen)
  /\ last = None
  /\ gen = NewGen

Do_sbt == Idle /\ last' = Applied(P_sbt) /\ UNCHANGED <<state, gen>>

NextSbt ==
  \/ Do_sbt
  \/ Thread

SpecSbt == InitSbt /\ [][NextSbt]_vars

\* C4: sbt on "(a" from offset 0 returns no value: it throws the
\* "Expected ')'" of consume(")"), with a span that starts at offset 2.
SbtUnclosedExpectsParen ==
  (last.op.tag = "sbt" /\ state = [code |-> <<"(", "a">>, index |-> 0]) =>
    /\ last.out.thrown.kind = "expected_string"
    /\ last.out.thrown.what = <<")">>
    /\ last.out.thrown.from = 2

\* --------------------------------------------------------------- highlight

RECURSIVE CountBreaks(_, _)
\* for (i = 0; i < n; ++i) if (code[i] === "\n") ++line
CountBreaks(str, n) ==
  IF n <= 0 THEN 0
  ELSE CountBreaks(str, n - 1) + (IF CharAt(str, n - 1) = Str(<<"\n">>) THEN 1 ELSE 0)

RECURSIVE Split(_, _)
\* String.prototype.split(sep), sep one character.
Split(str, sep) ==
  IF \E i \in 1..Len(str) : str[i] = sep
  THEN LET i == CHOOSE i \in 1..Len(str) :
                  str[i] = sep /\ \A j \in 1..(i - 1) : str[j] # sep
       IN <<SubSeq(str, 1, i - 1)>> \o Split(SubSeq(str, i + 1, Len(str)), sep)
  ELSE <<str>>

\* String.prototype.indexOf(ch)
IndexOf(str, ch) ==
  IF \E i \in 1..Len(str) : str[i] = ch
  THEN (CHOOSE i \in 1..Len(str) : str[i] = ch /\ \A j \in 1..(i - 1) : str[j] # ch) - 1
  ELSE -1

DigitChars == <<"0", "1", "2", "3", "4", "5", "6", "7", "8", "9">>

RECURSIVE NumberToString(_)
\* "" + n, for n >= 0
NumberToString(n) ==
  IF n < 10 THEN <<DigitChars[n + 1]>>
  ELSE NumberToString(n \div 10) \o <<DigitChars[(n % 10) + 1]>>

\* The marks open and close of the source, written in ASCII.
OpenMark == "<<"
CloseMark == ">>"
\* "\x1b[4m\x1b[31m" and "\x1b[0m", one element per escape sequence.
OpenColor == <<"ESC[4m", "ESC[31m">>
CloseColor == <<"ESC[0m">>

\* The body of the loop over the lines of the block: the line numb, rendered.
highlight_line(body, numb, from_line, to_line) ==
  LET line == body \o <<"\n">>
      io == IndexOf(line, OpenMark)
      ic == IndexOf(line, CloseMark)
      shaded ==
        IF numb = from_line /\ numb = to_line
        THEN Slice(line, 0, io) \o OpenColor \o Slice(line, io, ic + 1)
               \o CloseColor \o Slice(line, ic + 1, Len(line))
        ELSE IF numb = from_line
        THEN Slice(line, 0, io) \o OpenColor \o Slice(line, io, Len(line)) \o CloseColor
        ELSE IF numb > from_line /\ numb < to_line
        THEN OpenColor \o line \o CloseColor
        ELSE IF numb = to_line
        THEN OpenColor \o Slice(line, 0, ic + 1) \o CloseColor
               \o Slice(line, ic + 1, Len(line))
        ELSE line
      padded == <<" ", " ", " ", " ">> \o NumberToString(numb)
  IN Slice(padded, -4, Len(padded)) \o <<" ", "|", " ">> \o shaded

RECURSIVE highlight_loop(_, _, _, _, _)
\* for (i = 0; i < lines.length; ++i) { ...; text += line }, with i 1-based.
highlight_loop(lines, i, block_from_line, from_line, to_line) ==
  IF i > Len(lines) THEN <<>>
  ELSE highlight_line(lines[i], block_from_line + i - 1, from_line, to_line)
         \o highlight_loop(lines, i + 1, block_from_line, from_line, to_line)

\* Math.min(to_line + 3, lines.length)
block_to_line(to_line, n) == Min(to_line + 3, n)

highlight(from_index, to_index, str) ==
  LET from_line == CountBreaks(str, from_index)
      to_line == CountBreaks(str, to_index)
      colored == Slice(str, 0, from_index) \o <<OpenMark>> \o Slice(str, from_index, to_index)
                   \o <<CloseMark>> \o Slice(str, to_index, Len(str))
      lines == Split(colored, "\n")
      block_from_line == Max(from_line - 3, 0)
      block == SubSeq(lines, block_from_line + 1, block_to_line(to_line, Len(lines)))
  IN highlight_loop(block, 1, block_from_line, from_line, to_line)

\* ---------------------------------- specification: highlight (SpecHighlight)

HighlightAlphabet == {"a", "\n"}

\* The lengths of the spans: 0 and 2 for expected_string("") and
\* expected_string of two characters, 1 for expected_type.
SpanLengths == {0, 1, 2}

InitHighlight ==
  /\ state \in States(HighlightAlphabet, MaxHighlightLen)
  /\ last = None
  /\ gen = NewGen

\* highlight(state.index, state.index + n, state.code), as the two error
\* constructors call it.
Do_highlight ==
  \E n \in SpanLengths :
    /\ Idle
    /\ last' = [op |-> [tag |-> "highlight", from |-> state.index, to |-> state.index + n],
                out |-> Ret(state, Str(highlight(state.index, state.index + n, state.code)))]
    /\ UNCHANGED <<state, gen>>

NextHighlight ==
  \/ Do_highlight
  \/ Thread

SpecHighlight == InitHighlight /\ [][NextHighlight]_vars

\* The number of the line that position n of the text is on.
LineOf(str, n) == Cardinality({i \in 1..Min(n, Len(str)) : str[i] = "\n"})

IsText(c) == c \notin {OpenColor[1], OpenColor[2], CloseColor[1]}

\* C10: the lines rendered are those numbered max(F - 3, 0) to
\* min(T + 3, lastLine), F and T the lines of from and to, in order, each
\* behind its number right-aligned in 4 characters.
HighlightContext ==
  last.op.tag = "highlight" =>
    LET lo == Max(LineOf(state.code, last.op.from) - 3, 0)
        hi == Min(LineOf(state.code, last.op.to) + 3, LineOf(state.code, Len(state.code)))
        rendered == Split(SelectSeq(last.out.value.v, IsText), "\n")
    IN /\ Len(rendered) = (hi - lo + 1) + 1
       /\ \A i \in 1..(hi - lo + 1) :
            SubSeq(rendered[i], 1, 4) =
              Slice(<<" ", " ", " ", " ">> \o NumberToString(lo + i - 1), -4, 5)

====
